---- MODULE Spec2Model ----
(***************************************************************************)
(* A model of the core library of cargo-valgrind (src/src/lib.rs):         *)
(*   - run_in_valgrind / valgrind: the report channel between the parent   *)
(*     and the spawned valgrind child (listener, child, socket buffer),    *)
(*   - cargo_metadata / cargo_error: the cargo command and its error text, *)
(*   - valgrind's mapping of the parsed report into Leak values,           *)
(*   - Display for Function.                                               *)
(* Text is a sequence of tokens: a token is one character, or one string   *)
(* literal of the source taken as a whole.  An Option is a sequence of     *)
(* length at most one: None is <<>>, Some(v) is <<v>>.                     *)
(***************************************************************************)
EXTENDS Integers, Sequences, FiniteSets, TLC

VARIABLES
    pc,          \* the caller's position: "idle", the next step of run_in_valgrind, or "returned"
    op,          \* the library function of the current invocation
    open,        \* the sockets this invocation holds open
    port,        \* the port the operating system assigned to the listener (0: none)
    address,     \* the port local_addr() resolved (0: none)
    child,       \* the valgrind child: "none", "starting", "connected", "exited"
    childTarget, \* the port of the child's --xml-socket argument
    connected,   \* the child's connection was established (queued or accepted)
    pending,     \* a connection waits in the listener's backlog
    size,        \* the size of the child's report, in chunks
    remaining,   \* chunks the child has still to write
    buffered,    \* chunks written and not yet read (held by the socket buffers)
    wellFormed,  \* the child's report is a valid document
    status,      \* the child's exit status: "none", "ok", "fail"
    stderr,      \* what the child wrote on its error stream
    waitCalled,  \* wait() was called on the child handle
    reaped,      \* wait() collected the child's exit status
    trace,       \* the steps of run_in_valgrind taken so far, in order
    consumed,    \* chunks from_reader read from the connection
    result,      \* the value returned by the invocation
    prev,        \* the value returned by the previous invocation
    function,    \* Display: the Function being shown
    shown,       \* Display: the text written to the formatter
    output,      \* valgrind: the parsed valgrind_xml::Output
    leaks        \* valgrind: the returned list of Leak

vars == <<pc, op, open, port, address, child, childTarget, connected, pending,
          size, remaining, buffered, wellFormed, status, stderr, waitCalled,
          reaped, trace, consumed, result, prev, function, shown, output, leaks>>

channelVars == <<pc, op, open, port, address, child, childTarget, connected,
                 pending, size, remaining, buffered, wellFormed, status, stderr,
                 waitCalled, reaped, trace, consumed, result, prev>>

pureVars == <<function, shown, output, leaks>>

(***************************************************************************)
(* Bounds of the model.                                                    *)
(***************************************************************************)
SockCap   == 2      \* chunks the socket buffers hold before a write blocks
MaxLine   == 12     \* largest line number of a frame
MaxFrames == 1      \* longest stack trace of a generated report
MaxErrors == 2      \* most error records of a generated report

MaxReport == SockCap + 1   \* a report may exceed the socket buffers
Ports     == {49152, 49153}

None == <<>>
Some(v) == <<v>>
IsSome(o) == Len(o) = 1
Unwrap(o) == o[1]

(***************************************************************************)
(* Text helpers.                                                           *)
(***************************************************************************)
IsPrefix(p, s) == Len(p) <= Len(s) /\ SubSeq(s, 1, Len(p)) = p

Drop(s, n) == SubSeq(s, n + 1, Len(s))

WhiteSpace == {" ", "\n", "\t"}

\* str::trim_start_matches(pat): strips every repetition of pat from the start
RECURSIVE trim_start_matches(_, _)
trim_start_matches(s, pat) ==
    IF Len(pat) > 0 /\ IsPrefix(pat, s)
    THEN trim_start_matches(Drop(s, Len(pat)), pat)
    ELSE s

\* str::trim_end(): strips trailing white space
RECURSIVE trim_end(_)
trim_end(s) ==
    IF Len(s) > 0 /\ s[Len(s)] \in WhiteSpace
    THEN trim_end(SubSeq(s, 1, Len(s) - 1))
    ELSE s

\* str::trim_start(): strips leading white space
RECURSIVE trim_start(_)
trim_start(s) ==
    IF Len(s) > 0 /\ s[1] \in WhiteSpace
    THEN trim_start(Drop(s, 1))
    ELSE s

\* String::from_utf8_lossy: a byte that is not UTF-8 becomes U+FFFD
from_utf8_lossy(bytes) ==
    [i \in DOMAIN bytes |-> IF bytes[i] = "0xFF" THEN "U+FFFD" ELSE bytes[i]]

ErrorPrefix == <<"e", "r", "r", "o", "r", ":", " ">>

\* texts a child process may leave on its error stream
StderrTexts ==
    { <<>>,
      <<"x">>,
      ErrorPrefix \o <<"x", "\n">>,
      ErrorPrefix \o ErrorPrefix \o <<"x">>,
      <<" ">> \o ErrorPrefix \o <<"x", " ", "\n">>,
      ErrorPrefix \o <<"0xFF">> }

(***************************************************************************)
(* io::Error values.                                                       *)
(***************************************************************************)
\* std's decode_error_kind: the ErrorKind of an operating system error
decode_error_kind(errno) ==
    CASE errno = "ENOENT" -> "NotFound"
      [] errno = "EACCES" -> "PermissionDenied"
      [] OTHER            -> "Other"

\* io::Error::from_raw_os_error, as the `?` operator passes it on unchanged
OsError(errno) ==
    [kind |-> decode_error_kind(errno), os |-> Some(errno), msg |-> <<errno>>]

\* Error::new(kind, msg)
NewError(kind, msg) == [kind |-> kind, os |-> None, msg |-> msg]

BindErrnos      == {"EMFILE", "ENOBUFS"}
LocalAddrErrnos == {"ENOBUFS"}
SpawnErrnos     == {"ENOENT", "EMFILE"}
AcceptErrnos    == {"EMFILE", "ENOBUFS"}
WaitErrnos      == {"ECHILD"}

\* decoding failures serde_xml_rs reports
ParseCauses == {"unexpected end of stream", "missing field"}

cargo_error(output_stderr) ==
    LET msg  == from_utf8_lossy(output_stderr)
        msg2 == trim_end(trim_start_matches(msg, ErrorPrefix))
    IN  NewError("Other", <<"cargo command failed: ">> \o msg2)

\* the error of run_in_valgrind for a child that exited with a failure status
ToolFailure_FromStderr(child_stderr) ==
    NewError("Other", trim_end(trim_start_matches(from_utf8_lossy(child_stderr), ErrorPrefix)))

ToolFailure(child_stderr) ==
    NewError("Other", <<"valgrind command failed">>)

\* the error of run_in_valgrind for a report that does not parse
ParseError_Generic(e) ==
    NewError("Other", <<"valgrind command failed">>)

ParseError(e) ==
    NewError("Other", <<"Could not parse XML: ", e>>)

(***************************************************************************)
(* The parsed report (valgrind_xml::Output) and the Leak domain model.     *)
(***************************************************************************)
leaky  == <<"l", "e", "a", "k", "y">>
main_c == <<"m", "a", "i", "n", ".", "c">>

FrameFunctions == {None, Some(leaky)}
FrameFiles     == {None, Some(main_c)}
FrameLines     == {None, Some(12)}
Kinds          == {"Leak_DefinitelyLost", "Leak_StillReachable"}

\* valgrind_xml::Frame: the fields valgrind() reads, and one it does not
Frames ==
    [function : FrameFunctions, file : FrameFiles, line : FrameLines, obj : {"a.out"}]

SeqsUpTo(S, n) == UNION {[1..k -> S] : k \in 0..n}

\* valgrind_xml::Error
Errors ==
    [resources   : [bytes : {40}, blocks : {1}],
     kind        : Kinds,
     stack_trace : [frames : SeqsUpTo(Frames, MaxFrames)]]

\* valgrind_xml::Output: the error list may be absent altogether
Outputs == [errors : {None} \cup {Some(es) : es \in SeqsUpTo(Errors, MaxErrors)}]

\* the closure of the inner map() of valgrind()
ToFunction_NoLine(frame) ==
    [name |-> frame.function, file |-> frame.file, line |-> None]

ToFunction(frame) ==
    [name |-> frame.function, file |-> frame.file, line |-> frame.line]

\* the closure of the outer map() of valgrind()
ToLeak(error) ==
    [bytes       |-> error.resources.bytes,
     kind        |-> error.kind,
     stack_trace |-> [i \in 1..Len(error.stack_trace.frames) |->
                         ToFunction(error.stack_trace.frames[i])]]

\* Option::unwrap_or_default on the error list
unwrap_or_default(o) == IF IsSome(o) THEN Unwrap(o) ELSE <<>>

\* the value valgrind() maps a parsed report to
Leaks(out) ==
    LET errors == unwrap_or_default(out.errors)
    IN  [i \in 1..Len(errors) |-> ToLeak(errors[i])]

(***************************************************************************)
(* Display for Function.                                                   *)
(***************************************************************************)
Digits == <<"0", "1", "2", "3", "4", "5", "6", "7", "8", "9">>

\* the decimal text `write!(f, ":{}", line)` produces for the number
RECURSIVE fmt_usize(_)
fmt_usize(n) ==
    IF n < 10 THEN <<Digits[n + 1]>>
    ELSE fmt_usize(n \div 10) \o <<Digits[(n % 10) + 1]>>

Unknown == <<"u", "n", "k", "n", "o", "w", "n">>

Display_LineWithoutFile(f) ==
    (IF IsSome(f.name) THEN Unwrap(f.name) ELSE Unknown)
    \o (IF IsSome(f.file) \/ IsSome(f.line)
        THEN <<" ", "(">>
             \o (IF IsSome(f.file) THEN Unwrap(f.file) ELSE <<>>)
             \o (IF IsSome(f.line) THEN <<":">> \o fmt_usize(Unwrap(f.line)) ELSE <<>>)
             \o <<")">>
        ELSE <<>>)

Display(f) ==
    (IF IsSome(f.name) THEN Unwrap(f.name) ELSE Unknown)
    \o (IF IsSome(f.file)
        THEN <<" ", "(">>
             \o Unwrap(f.file)
             \o (IF IsSome(f.line) THEN <<":">> \o fmt_usize(Unwrap(f.line)) ELSE <<>>)
             \o <<")">>
        ELSE <<>>)

\* the Function values shown
Functions ==
    [name : {None, Some(leaky), Some(<<"f">>)},
     file : {None, Some(main_c)},
     line : {None} \cup {Some(n) : n \in 0..MaxLine}]

(***************************************************************************)
(* Results of an invocation.                                               *)
(***************************************************************************)
NoError  == [kind |-> "none", os |-> None, msg |-> <<>>]
NoResult == [stage |-> "none", err |-> NoError, val |-> <<>>]

\* Ok(v)
Ok(v) == [stage |-> "ok", err |-> NoError, val |-> v]

\* Err(e), with the step that failed
Err(stage, e) == [stage |-> stage, err |-> e, val |-> <<>>]

\* reports the parser may produce for a valid document
SampleOutputs ==
    { [errors |-> None],
      [errors |-> Some(<<>>)],
      [errors |-> Some(<<[resources   |-> [bytes |-> 40, blocks |-> 1],
                          kind        |-> "Leak_DefinitelyLost",
                          stack_trace |-> [frames |->
                              <<[function |-> Some(leaky), file |-> Some(main_c),
                                 line |-> Some(12), obj |-> "a.out"]>>]]>>)] }

(***************************************************************************)
(* run_in_valgrind: the parent's steps.                                    *)
(***************************************************************************)
\* the order of the statements of run_in_valgrind
StepAfter_AcceptFirst(step) ==
    CASE step = "bind"       -> "local_addr"
      [] step = "local_addr" -> "accept"
      [] step = "accept"     -> "spawn"
      [] step = "spawn"      -> "wait"
      [] step = "wait"       -> "from_reader"

StepAfter(step) ==
    CASE step = "bind"       -> "local_addr"
      [] step = "local_addr" -> "spawn"
      [] step = "spawn"      -> "accept"
      [] step = "accept"     -> "wait"
      [] step = "wait"       -> "from_reader"

\* the sockets left open when the locals of run_in_valgrind go out of scope
Dropped_KeepListener(held) == held \cap {"listener"}

Dropped(held) == {}

\* `if valgrind.wait()?.success()`: the branch that reads the report
ReadsReport_Always(exit_status) == TRUE

ReadsReport(exit_status) == exit_status = "ok"

childVars == <<child, childTarget, connected, size, remaining, buffered,
               wellFormed, status, stderr>>

\* a `return`, or a `?` that returns early: the locals are dropped
Return(r) ==
    /\ pc' = "returned"
    /\ result' = r
    /\ open' = Dropped(open)
    /\ pending' = FALSE

\* TcpListener::bind(address) succeeds: the system picks the port
Bind ==
    /\ pc = "idle"
    /\ op' = "valgrind"
    /\ trace' = Append(trace, "bind")
    /\ \E p \in Ports : port' = p
    /\ open' = open \cup {"listener"}
    /\ pc' = StepAfter("bind")
    /\ UNCHANGED <<address, childVars, pending, waitCalled, reaped, consumed,
                   result, prev, pureVars>>

\* TcpListener::bind(address)? fails
BindFail ==
    /\ pc = "idle"
    /\ op' = "valgrind"
    /\ trace' = Append(trace, "bind")
    /\ \E e \in BindErrnos : Return(Err("bind", OsError(e)))
    /\ UNCHANGED <<port, address, childVars, waitCalled, reaped, consumed,
                   prev, pureVars>>

\* listener.local_addr() succeeds
LocalAddr ==
    /\ pc = "local_addr"
    /\ trace' = Append(trace, "local_addr")
    /\ address' = port
    /\ pc' = StepAfter("local_addr")
    /\ UNCHANGED <<op, open, port, childVars, pending, waitCalled, reaped,
                   consumed, result, prev, pureVars>>

\* listener.local_addr()? fails
LocalAddrFail ==
    /\ pc = "local_addr"
    /\ trace' = Append(trace, "local_addr")
    /\ \E e \in LocalAddrErrnos : Return(Err("local_addr", OsError(e)))
    /\ UNCHANGED <<op, port, address, childVars, waitCalled, reaped, consumed,
                   prev, pureVars>>

\* Command::new("valgrind") ... .spawn() succeeds: the child starts with the
\* resolved address as its --xml-socket argument
Spawn ==
    /\ pc = "spawn"
    /\ trace' = Append(trace, "spawn")
    /\ child' = "starting"
    /\ childTarget' = address
    /\ \E n \in 0..MaxReport : size' = n /\ remaining' = n
    /\ \E b \in BOOLEAN : wellFormed' = b
    /\ pc' = StepAfter("spawn")
    /\ UNCHANGED <<op, open, port, address, connected, pending, buffered,
                   status, stderr, waitCalled, reaped, consumed, result, prev,
                   pureVars>>

\* Command::spawn()? fails
SpawnFail ==
    /\ pc = "spawn"
    /\ trace' = Append(trace, "spawn")
    /\ \E e \in SpawnErrnos : Return(Err("spawn", OsError(e)))
    /\ UNCHANGED <<op, port, address, childVars, waitCalled, reaped, consumed,
                   prev, pureVars>>

\* listener.accept() returns the connection queued by the child
Accept ==
    /\ pc = "accept"
    /\ pending
    /\ trace' = Append(trace, "accept")
    /\ pending' = FALSE
    /\ open' = open \cup {"stream"}
    /\ pc' = StepAfter("accept")
    /\ UNCHANGED <<op, port, address, childVars, waitCalled, reaped, consumed,
                   result, prev, pureVars>>

\* listener.accept()? fails: the early return drops the Child handle, and
\* dropping a Child neither waits for the process nor kills it
AcceptFail ==
    /\ pc = "accept"
    /\ trace' = Append(trace, "accept")
    /\ \E e \in AcceptErrnos : Return(Err("accept", OsError(e)))
    /\ UNCHANGED <<op, port, address, childVars, waitCalled, reaped, consumed,
                   prev, pureVars>>

\* valgrind.wait() returns once the child has exited, then the branch on
\* the exit status
Wait ==
    /\ pc = "wait"
    /\ child = "exited"
    /\ trace' = Append(trace, "wait")
    /\ waitCalled' = TRUE
    /\ reaped' = TRUE
    /\ IF ReadsReport(status)
       THEN /\ pc' = StepAfter("wait")
            /\ UNCHANGED <<open, pending, result>>
       ELSE Return(Err("tool", ToolFailure(stderr)))
    /\ UNCHANGED <<op, port, address, childVars, consumed, prev, pureVars>>

\* valgrind.wait()? fails
WaitFail ==
    /\ pc = "wait"
    /\ child = "exited"
    /\ trace' = Append(trace, "wait")
    /\ waitCalled' = TRUE
    /\ \E e \in WaitErrnos : Return(Err("wait", OsError(e)))
    /\ UNCHANGED <<op, port, address, childVars, reaped, consumed, prev,
                   pureVars>>

\* serde_xml_rs::from_reader(listener).map_err(..), and valgrind()'s mapping
\* of the parsed report: the connection is read to its end
FromReader ==
    /\ pc = "from_reader"
    /\ trace' = Append(trace, "from_reader")
    /\ consumed' = buffered
    /\ buffered' = 0
    /\ IF wellFormed /\ buffered = size
       THEN \E out \in SampleOutputs : Return(Ok(Leaks(out)))
       ELSE \E e \in ParseCauses : Return(Err("parse", ParseError(e)))
    /\ UNCHANGED <<op, port, address, child, childTarget, connected, size,
                   remaining, wellFormed, status, stderr, waitCalled, reaped,
                   prev, pureVars>>

(***************************************************************************)
(* The valgrind child process and the socket between it and the parent.    *)
(***************************************************************************)
\* the child connects to the address of its --xml-socket argument; the
\* system queues the connection until the parent accepts it
ChildConnect ==
    /\ child = "starting"
    /\ "listener" \in open
    /\ childTarget = port
    /\ child' = "connected"
    /\ connected' = TRUE
    /\ pending' = TRUE
    /\ UNCHANGED <<pc, op, open, port, address, childTarget, size, remaining,
                   buffered, wellFormed, status, stderr, waitCalled, reaped,
                   trace, consumed, result, prev, pureVars>>

\* the child writes one chunk of its report; the write blocks while the
\* socket buffers are full
ChildWrite ==
    /\ child = "connected"
    /\ pending \/ "stream" \in open
    /\ remaining > 0
    /\ buffered < SockCap
    /\ remaining' = remaining - 1
    /\ buffered' = buffered + 1
    /\ UNCHANGED <<pc, op, open, port, address, child, childTarget, connected,
                   pending, size, wellFormed, status, stderr, waitCalled,
                   reaped, trace, consumed, result, prev, pureVars>>

\* the child has written its whole report and exits, with the exit status
\* of the program it ran
ChildExit ==
    /\ child = "connected"
    /\ remaining = 0
    /\ child' = "exited"
    /\ \/ status' = "ok" /\ stderr' = <<>>
       \/ status' = "fail" /\ \E t \in StderrTexts : stderr' = t
    /\ UNCHANGED <<pc, op, open, port, address, childTarget, connected,
                   pending, size, remaining, buffered, wellFormed, waitCalled,
                   reaped, trace, consumed, result, prev, pureVars>>

\* the child fails during its startup, or in the middle of its report
ChildFail ==
    /\ \/ child = "starting"
       \/ child = "connected" /\ remaining > 0
    /\ child' = "exited"
    /\ status' = "fail"
    /\ \E t \in StderrTexts : stderr' = t
    /\ UNCHANGED <<pc, op, open, port, address, childTarget, connected,
                   pending, size, remaining, buffered, wellFormed, waitCalled,
                   reaped, trace, consumed, result, prev, pureVars>>

(***************************************************************************)
(* cargo_metadata: the cargo command, run to its end with captured output. *)
(***************************************************************************)
cargo_metadata ==
    /\ pc = "idle"
    /\ op' = "cargo_metadata"
    /\ pc' = "returned"
    /\ \/ \E e \in SpawnErrnos :
            result' = Err("output", OsError(e)) /\ status' = "none" /\ stderr' = <<>>
       \/ result' = Ok(<<"{", "}">>) /\ status' = "ok" /\ stderr' = <<>>
       \/ /\ result' = Err("utf8", NewError("InvalidInput", <<"Non-UTF-8 string">>))
          /\ status' = "ok"
          /\ stderr' = <<>>
       \/ \E t \in StderrTexts :
            result' = Err("cargo", cargo_error(t)) /\ status' = "fail" /\ stderr' = t
    /\ UNCHANGED <<open, port, address, child, childTarget, connected, pending,
                   size, remaining, buffered, wellFormed, waitCalled, reaped,
                   trace, consumed, prev, pureVars>>

\* the caller takes the result and may call the library again
Again ==
    /\ pc = "returned"
    /\ prev' = result
    /\ pc' = "idle"
    /\ op' = "none"
    /\ port' = 0
    /\ address' = 0
    /\ child' = "none"
    /\ childTarget' = 0
    /\ connected' = FALSE
    /\ pending' = FALSE
    /\ size' = 0
    /\ remaining' = 0
    /\ buffered' = 0
    /\ wellFormed' = TRUE
    /\ status' = "none"
    /\ stderr' = <<>>
    /\ waitCalled' = FALSE
    /\ reaped' = FALSE
    /\ trace' = <<>>
    /\ consumed' = 0
    /\ result' = NoResult
    /\ UNCHANGED <<open, pureVars>>

NoFunction == [name |-> None, file |-> None, line |-> None]
NoOutput   == [errors |-> None]

ChannelInit ==
    /\ pc = "idle"
    /\ op = "none"
    /\ open = {}
    /\ port = 0
    /\ address = 0
    /\ child = "none"
    /\ childTarget = 0
    /\ connected = FALSE
    /\ pending = FALSE
    /\ size = 0
    /\ remaining = 0
    /\ buffered = 0
    /\ wellFormed = TRUE
    /\ status = "none"
    /\ stderr = <<>>
    /\ waitCalled = FALSE
    /\ reaped = FALSE
    /\ trace = <<>>
    /\ consumed = 0
    /\ result = NoResult
    /\ prev = NoResult

Init ==
    /\ ChannelInit
    /\ function = NoFunction
    /\ shown = None
    /\ output = NoOutput
    /\ leaks = None

Next ==
    \/ Bind
    \/ BindFail
    \/ LocalAddr
    \/ LocalAddrFail
    \/ Spawn
    \/ SpawnFail
    \/ Accept
    \/ AcceptFail
    \/ Wait
    \/ WaitFail
    \/ FromReader
    \/ ChildConnect
    \/ ChildWrite
    \/ ChildExit
    \/ ChildFail
    \/ cargo_metadata
    \/ Again

Spec == Init /\ [][Next]_vars

\* the steps that happen whenever they can: a call that can succeed returns,
\* a running child goes on, the caller goes on.  A failure of the operating
\* system or of the child is never bound to happen.
FairSpec ==
    /\ Spec
    /\ WF_vars(Bind)
    /\ WF_vars(LocalAddr)
    /\ WF_vars(Spawn)
    /\ WF_vars(Accept)
    /\ WF_vars(Wait)
    /\ WF_vars(FromReader)
    /\ WF_vars(ChildConnect)
    /\ WF_vars(ChildWrite)
    /\ WF_vars(ChildExit)
    /\ WF_vars(Again)

(***************************************************************************)
(* Display for Function, applied to every Function of the bounded set.     *)
(***************************************************************************)
\* `format!("{}", function)`
Fmt ==
    /\ shown = None
    /\ shown' = Some(Display(function))
    /\ UNCHANGED <<channelVars, function, output, leaks>>

DisplayInit ==
    /\ ChannelInit
    /\ function \in Functions
    /\ shown = None
    /\ output = NoOutput
    /\ leaks = None

DisplayNext == Fmt

DisplaySpec == DisplayInit /\ [][DisplayNext]_vars

(***************************************************************************)
(* valgrind()'s mapping, applied to every parsed report of the bounded set.*)
(***************************************************************************)
\* `Ok(run_in_valgrind(path)?.errors.unwrap_or_default().into_iter().map(..).collect())`
\* for a report that run_in_valgrind parsed
Collect ==
    /\ leaks = None
    /\ leaks' = Some(Leaks(output))
    /\ UNCHANGED <<channelVars, function, shown, output>>

ExtractInit ==
    /\ ChannelInit
    /\ function = NoFunction
    /\ shown = None
    /\ output \in Outputs
    /\ leaks = None

ExtractNext == Collect

ExtractSpec == ExtractInit /\ [][ExtractNext]_vars

(***************************************************************************)
(* Properties.                                                             *)
(***************************************************************************)
Range(s) == {s[i] : i \in DOMAIN s}

Order == <<"bind", "local_addr", "spawn", "accept", "wait", "from_reader">>

\* C1: when the child exits with a failure status the invocation returns an
\* error and the connection is never read or parsed; the connection is read
\* only after the child was seen to exit successfully.
C1_NoReadAfterFailedChild ==
    op = "valgrind" =>
        /\ "from_reader" \in Range(trace) => status = "ok" /\ reaped
        /\ pc = "from_reader" => status = "ok" /\ reaped
        /\ status = "fail" => consumed = 0 /\ "from_reader" \notin Range(trace)
        /\ pc = "returned" /\ status = "fail" => result.stage # "ok"

\* a failed child whose partial report stays unread in the socket
C1_Witness ==
    /\ pc = "returned"
    /\ result.stage = "tool"
    /\ buffered > 0
    /\ consumed = 0

Repeat(pat, k) == IF k = 0 THEN <<>> ELSE IF k = 1 THEN pat ELSE pat \o pat

C4_ChildAlwaysWaited ==
    op = "valgrind" /\ pc = "returned" /\ child # "none" => waitCalled

\* C5: a child that connected and writes its report is never left blocked
\* on a write while the parent waits for its exit: the invocation returns.
C5_ReportChannelNeverDeadlocks ==
    (op = "valgrind" /\ pc = "wait" /\ child = "connected") ~> (pc = "returned")

\* C6: the steps of an invocation occur in the order bind, local_addr, spawn,
\* accept, wait, from_reader, each at most once; a child exists only after
\* the listener was bound and its address resolved, it is given that address,
\* and the listener stays open while the invocation runs, so the child's
\* connection finds it; one connection is accepted.
C6_StepsInOrder ==
    op = "valgrind" =>
        /\ IsPrefix(trace, Order)
        /\ child # "none" =>
            /\ IsPrefix(<<"bind", "local_addr", "spawn">>, trace)
            /\ port \in Ports
            /\ address = port
            /\ childTarget = port
            /\ pc # "returned" => "listener" \in open
        /\ pending => "listener" \in open /\ "accept" \notin Range(trace)
        /\ "stream" \in open => IsPrefix(<<"bind", "local_addr", "spawn", "accept">>, trace)
        /\ pc = "returned" /\ result.stage = "ok" => trace = Order

\* an invocation that went through all six steps
C6_Witness ==
    /\ op = "valgrind"
    /\ pc = "returned"
    /\ result.stage = "ok"
    /\ Len(trace) = 6
    /\ size > 0

\* decimal text of a line number below 1000, digit by digit
Decimal(n) ==
    IF n < 10 THEN <<Digits[n + 1]>>
    ELSE IF n < 100 THEN <<Digits[(n \div 10) + 1], Digits[(n % 10) + 1]>>
    ELSE <<Digits[(n \div 100) + 1], Digits[((n \div 10) % 10) + 1], Digits[(n % 10) + 1]>>

\* C7: Display of a Function is the name, or "unknown" without a name,
\* followed by " (file:line)" with file and line, by " (file)" with a file
\* and no line, and by nothing without a file, a line or not.
C7_DisplayFormat ==
    shown # None =>
        LET name == IF function.name = None THEN Unknown ELSE function.name[1]
            text == Unwrap(shown)
        IN  CASE function.file # None /\ function.line # None ->
                    text = name \o <<" ", "(">> \o function.file[1] \o <<":">>
                           \o Decimal(function.line[1]) \o <<")">>
              [] function.file # None /\ function.line = None ->
                    text = name \o <<" ", "(">> \o function.file[1] \o <<")">>
              [] function.file = None /\ function.line # None -> text = name
              [] function.file = None /\ function.line = None -> text = name

\* a Function with a line and neither name nor file is shown as "unknown"
C7_Witness ==
    /\ shown = Some(Unknown)
    /\ function.name = None
    /\ function.file = None
    /\ function.line = Some(12)

FailStages == {"bind", "local_addr", "spawn", "accept", "tool", "parse"}
OsStages   == {"bind", "local_addr", "spawn", "accept", "wait"}

C9_SocketsClosedOnReturn ==
    /\ pc = "returned" /\ op = "valgrind" => open = {}
    /\ pc = "idle" => open = {}

\* a return on a parse failure, both sockets having been opened, after an
\* earlier invocation
C9_Witness ==
    /\ pc = "returned"
    /\ result.stage = "parse"
    /\ "accept" \in Range(trace)
    /\ prev.stage # "none"
    /\ open = {}

\* C10: when the child exits without ever connecting, the invocation still
\* returns; the parent does not stay blocked in accept.
C10_ReturnsWhenChildNeverConnects ==
    (op = "valgrind" /\ pc = "accept" /\ child = "exited" /\ ~connected) ~> (pc = "returned")

====
